---- MODULE Spec2Model ----
(***************************************************************************)
(* Student-network training of StyleGAN2-Compression (compress.py):        *)
(* the __main__ wiring (argument parsing, model and optimizer              *)
(* construction, teacher / student checkpoint loading) and the train()     *)
(* loop, one action per statement group of the source.                     *)
(*                                                                         *)
(* Abstractions.  A network's parameters are one fixed-point number        *)
(* (unit 1/10000); a gradient is the number of backward passes that were   *)
(* accumulated into .grad since it was last zeroed (0 = no gradient); an   *)
(* Adam step moves a parameter that has a gradient by the optimizer's      *)
(* learning rate; file names are sequences of one-character strings.       *)
(***************************************************************************)
EXTENDS Integers, Sequences, FiniteSets, TLC

VARIABLES
    args,          \* parsed command line (argparse namespace) + launch environment
    pc,            \* position of the process in __main__ / train
    files,         \* checkpoint directory: set of [name, content]
    samples,       \* sample directory: set of file names
    w,             \* parameters of each network
    rg,            \* requires_grad flag of each network's parameters
    grad,          \* accumulated .grad of each network's parameters
    g_optim,       \* Adam over student_generator.parameters()
    d_optim,       \* Adam over student_discriminator.parameters()
    idx,           \* next value of the loop variable of `for idx in pbar`
    i,             \* iteration index i = idx + args.start_iter
    ada_aug_p,     \* augmentation probability, percent
    ada_augment,   \* AdaptiveAugment controller (built = FALSE when not constructed)
    r1_loss,       \* last computed R1 penalty
    path_loss,     \* last computed path penalty
    path_lengths,  \* last computed path lengths
    mean_path_length,
    mean_path_length_avg,
    loss_dict,     \* metric name -> value
    noise,         \* last latent batch drawn by mixing_noise
    nDraws,        \* number of noise batches drawn so far by this process
    graph,         \* networks the loss about to be back-propagated depends on
    group,         \* the processes of a distributed launch, by rank (SpecDist)
    call,          \* a function called on inputs of its own (SpecUnits)
    hist           \* observation of the run (not program state): see NoHist

vars == <<args, pc, files, samples, w, rg, grad, g_optim, d_optim, idx, i,
          ada_aug_p, ada_augment, r1_loss, path_loss, path_lengths,
          mean_path_length, mean_path_length_avg, loss_dict, noise, nDraws,
          graph, group, call, hist>>

----------------------------------------------------------------------------
(* Bounds of the exploration *)

MaxIter == 3        \* iteration budgets explored: 0..MaxIter past the start index
MaxRegEvery == 2    \* d_reg_every, g_reg_every in 1..MaxRegEvery
MaxRuns == 2        \* launches of the program on one experiment directory

(* Program constants *)

SampleEvery == 1000      \* `if i % 1000 == 0`
SaveEvery == 10000       \* `if i % 10000 == 0`
NameWidth == 6           \* str(i).zfill(6)
LrUnits == 20            \* --lr default 0.002, in units of 1/10000
AccumNum == 9978         \* accum = 0.5 ** (32 / (10 * 1000)) ~ 0.9978
AccumDen == 10000
PathDecayDen == 100      \* g_path_regularize(decay=0.01)
BatchDefault == 16       \* --batch
PathBatchShrink == 2     \* --path_batch_shrink
MixingDefault == 90      \* --mixing 0.9, percent
AdaStep == 10            \* tuning step of AdaptiveAugment, percent
LatentDim == 512         \* args.latent

----------------------------------------------------------------------------
(* Strings: str, zfill, splitext, int *)

Digits == <<"0", "1", "2", "3", "4", "5", "6", "7", "8", "9">>

IsDigit(c) == \E k \in 1..10 : Digits[k] = c

DigitVal(c) == (CHOOSE k \in 1..10 : Digits[k] = c) - 1

RECURSIVE Str(_)
Str(n) == IF n < 10 THEN <<Digits[n + 1]>>
          ELSE Str(n \div 10) \o <<Digits[(n % 10) + 1]>>

ZFill(s, width) ==
    IF Len(s) >= width THEN s
    ELSE [k \in 1..(width - Len(s)) |-> "0"] \o s

\* os.path.splitext(name)[0]: the name up to its last dot (whole name if none
\* or if the only dot is the first character)
SplitExtRoot(name) ==
    LET dots == {k \in 2..Len(name) : name[k] = "."}
    IN  IF dots = {} THEN name
        ELSE LET last == CHOOSE k \in dots : \A j \in dots : j <= k
             IN  SubSeq(name, 1, last - 1)

RECURSIVE DigitsValue(_)
DigitsValue(s) == IF s = <<>> THEN 0
                  ELSE 10 * DigitsValue(SubSeq(s, 1, Len(s) - 1)) + DigitVal(s[Len(s)])

\* int(s): ok = FALSE stands for ValueError
IntParse(s) ==
    IF s # <<>> /\ \A k \in 1..Len(s) : IsDigit(s[k])
    THEN [ok |-> TRUE, val |-> DigitsValue(s)]
    ELSE [ok |-> FALSE, val |-> 0]

PtExt == <<".", "p", "t">>

\* f"{str(i).zfill(6)}.pt"
CkptName(n) == ZFill(Str(n), NameWidth) \o PtExt

\* f"{str(i).zfill(6)}-student.png"
SampleName(n) == ZFill(Str(n), NameWidth) \o <<"-", "s", "t", "u", "d", "e", "n", "t", ".", "p", "n", "g">>

\* a checkpoint the user renamed
LatestName == <<"l", "a", "t", "e", "s", "t">> \o PtExt

----------------------------------------------------------------------------
(* Networks, optimizers, checkpoints *)

Teacher == {"generator", "discriminator", "g_ema"}
Student == {"student_generator", "student_discriminator", "student_g_ema"}
Models == Teacher \cup Student

Generators == {"generator", "g_ema", "student_generator", "student_g_ema"}

\* model.named_parameters(): the style mapping network and the rest
ParamNames(m) == IF m \in Generators THEN {"style", "convs"} ELSE {"convs"}

\* a state dict in which every parameter has the value v
Params(m, v) == [k \in ParamNames(m) |-> v]

\* Generator(...) / Discriminator(...): freshly initialised parameters, one
\* representative value per network
InitWeight(m) ==
    CASE m = "generator" -> Params(m, 1000)
      [] m = "discriminator" -> Params(m, 2000)
      [] m = "g_ema" -> Params(m, 3000)
      [] m = "student_generator" -> Params(m, 4000)
      [] m = "student_discriminator" -> Params(m, 5000)
      [] m = "student_g_ema" -> Params(m, 6000)

\* the pretrained teacher checkpoint given as --ckpt
TeacherCkpt == [g |-> Params("generator", 11000),
                d |-> Params("discriminator", 12000),
                g_ema |-> Params("g_ema", 13000)]

\* variant: the two weights exchanged
Accumulate_Swapped(target, source, num, den) ==
    [k \in DOMAIN target |-> (target[k] * (den - num) + source[k] * num) \div den]

\* accumulate(model1, model2, decay): for every name of model1,
\* par1 * decay + par2 * (1 - decay), decay = num / den
Accumulate(target, source, num, den) ==
    [k \in DOMAIN target |-> (target[k] * num + source[k] * (den - num)) \div den]

\* optim.Adam(params, lr = args.lr * ratio), ratio = reg_every / (reg_every + 1)
AdamLr(reg_every) == (LrUnits * reg_every) \div (reg_every + 1)

NewAdam(reg_every) == [lr |-> AdamLr(reg_every), t |-> 0]

\* variant: g_optim constructed over the teacher generator's parameters too
GOptimParams_WithTeacher == {"student_generator", "generator"}

\* the parameters each optimizer was constructed over
GOptimParams == {"student_generator"}

DOptimParams == {"student_discriminator"}

Sign(x) == IF x > 0 THEN 1 ELSE IF x < 0 THEN -1 ELSE 0

\* optimizer.step(): every parameter of the optimizer that has a gradient moves
\* by the learning rate against the gradient
StepWeights(opt, params, ws, grads) ==
    [m \in Models |->
        IF m \in params /\ grads[m] # 0
        THEN [k \in DOMAIN ws[m] |-> ws[m][k] - opt.lr * Sign(grads[m])]
        ELSE ws[m]]

StepState(opt) == [opt EXCEPT !.t = @ + 1]

\* variant: the gradients are left as they are
ZeroGrad_Skipped(m, grads) == grads

\* model.zero_grad()
ZeroGrad(m, grads) == [grads EXCEPT ![m] = 0]

\* loss.backward(): a gradient is accumulated on every parameter the loss was
\* computed from while that parameter required grad
Backward(deps, grads) ==
    [m \in Models |-> IF m \in deps THEN grads[m] + 1 ELSE grads[m]]

\* requires_grad(model, flag)
SetRequiresGrad(m, flag, flags) == [flags EXCEPT ![m] = flag]

\* the networks among `deps` whose parameters are recorded in the autograd graph
Tracked(deps, flags) == {m \in deps : flags[m]}

----------------------------------------------------------------------------
(* Noise sampler *)

\* make_noise(batch, latent_dim, n_noise, device): a tensor, given by its
\* shape, or the n_noise tensors unbound from a stack of them
make_noise(batch, latent_dim, n_noise) ==
    IF n_noise = 1 THEN <<batch, latent_dim>>
    ELSE [k \in 1..n_noise |-> <<batch, latent_dim>>]

\* variant: the comparison with the draw inverted
mixing_noise_Inverted(batch, latent_dim, prob, u) ==
    IF prob > 0 /\ u > prob
    THEN make_noise(batch, latent_dim, 2)
    ELSE <<make_noise(batch, latent_dim, 1)>>

\* mixing_noise(batch, latent_dim, prob, device): the sequence of latent
\* tensors returned; prob and the draw u of random.random() in percent
mixing_noise(batch, latent_dim, prob, u) ==
    IF prob > 0 /\ u < prob
    THEN make_noise(batch, latent_dim, 2)
    ELSE <<make_noise(batch, latent_dim, 1)>>

\* mixing_noise(batch, latent_dim, prob, device); u stands for random.random(),
\* in percent.  Returns the number of latent tensors of the batch.
MixingNoise(prob, u) == IF prob > 0 /\ u < prob THEN 2 ELSE 1

RandomDraws == {0, 95}

\* the draws random.random() can take where it is evaluated at all
DrawsFor(prob) == IF prob > 0 THEN RandomDraws ELSE {0}

Max(a, b) == IF a >= b THEN a ELSE b

Min(a, b) == IF a <= b THEN a ELSE b

----------------------------------------------------------------------------
(* Losses, as functions of the parameters they are computed from *)

DLogisticLoss(wd, wg) == wd.convs + wg.convs

D_R1Loss(wd) == wd.convs

GNonsaturatingLoss(wd, wg) == wg.convs - wd.convs

\* g_path_regularize: (path_penalty, path_mean, path_lengths)
GPathRegularize(wg, mean) ==
    LET lengths == wg.style
        path_mean == mean + (lengths - mean) \div PathDecayDen
    IN  [penalty |-> (lengths - path_mean) * (lengths - path_mean),
         mean |-> path_mean,
         lengths |-> lengths]

----------------------------------------------------------------------------
(* Checkpoints *)

\* the dictionary torch.save writes in train
CkptOf(ws, gopt, dopt, p) ==
    [g |-> ws["student_generator"],
     d |-> ws["student_discriminator"],
     g_ema |-> ws["student_g_ema"],
     g_optim |-> gopt,
     d_optim |-> dopt,
     ada_aug_p |-> p]

\* torch.save(obj, path): the file is created or overwritten
SaveFile(dir, name, content) ==
    {f \in dir : f.name # name} \cup {[name |-> name, content |-> content]}

\* torch.load(path)
LoadFile(dir, name) == (CHOOSE f \in dir : f.name = name).content

\* a checkpoint an earlier run of train left at iteration n, d_reg_every =
\* g_reg_every = 1, adaptive augmentation at 3 * AdaStep percent
EarlierCkpt(n) ==
    CkptOf([m \in Models |-> Params(m, 7000 + (n % 7))],
           [lr |-> AdamLr(1), t |-> 2 * (n + 1)],
           [lr |-> AdamLr(1), t |-> 2 * (n + 1)],
           3 * AdaStep)

\* the experiment directory of an earlier run: its checkpoints at 0 and at
\* SaveEvery, and a copy the user renamed
EarlierFiles ==
    {[name |-> CkptName(0), content |-> EarlierCkpt(0)],
     [name |-> CkptName(SaveEvery), content |-> EarlierCkpt(SaveEvery)],
     [name |-> LatestName, content |-> EarlierCkpt(SaveEvery + 1)]}

NoFile == <<>>

\* what __main__ will parse as start index from --ckpt_s
StartOf(name) ==
    IF name = NoFile THEN 0
    ELSE LET r == IntParse(SplitExtRoot(name)) IN IF r.ok THEN r.val ELSE 0

----------------------------------------------------------------------------
(* Observation of a run: what was done in the current iteration, which      *)
(* iterations were executed, what train was entered with                    *)

\* one operation: its name, the requires_grad flags it ran under, the
\* augmentation probability it used and the id of the noise batch it consumed
Ev(op, flags, p, z) == [op |-> op, rg |-> flags, p |-> p, z |-> z]

NoHist ==
    [ops |-> <<>>,            \* operations of the current iteration, in order
     executed |-> <<>>,       \* iteration indices executed by this run
     entry |-> [m \in Models |-> Params(m, 0)],   \* parameters when train was entered
     loaded |-> <<>>,         \* the checkpoints passed to torch.load as ckpt_s
     r1_at |-> -1,            \* iteration of the last R1 recomputation
     r1_val |-> 0,            \* and the penalty it computed
     path_at |-> -1,          \* iteration of the last path regularization
     path_val |-> [loss |-> 0, lengths |-> 0, mean |-> 0],   \* and its results
     tuned |-> 0,             \* calls of ada_augment.tune in this run
     written |-> <<>>,        \* files written to the experiment directory,
                              \* by every launch: [kind, name, at, launch]
     error |-> ""]

Log(h, evs) == [h EXCEPT !.ops = @ \o evs]

----------------------------------------------------------------------------
(* __main__: the parsed arguments and the constructed networks *)

\* iteration budgets explored for a start index s: the run is at most
\* MaxIter + 1 iterations long
IterChoices(s) == (0..MaxIter) \cup {s + k : k \in 0..MaxIter}

AugmentPChoices == {0, 50}

Ranks == {0, 1}

MixingChoices == {MixingDefault}

\* the arguments and the launch environment explored.  Options that cannot
\* act are kept at their defaults: inherit_style without --ckpt, an
\* architecture mismatch where no teacher state is loaded into the student,
\* a fixed augmentation probability without --augment, teacher feature maps
\* of another batch size without kernel alignment.
ArgSpace(dir) ==
    UNION {
      UNION {
        {a \in [iter : {it},
                d_reg_every : 1..MaxRegEvery,
                g_reg_every : 1..MaxRegEvery,
                augment : BOOLEAN,
                augment_p : AugmentPChoices,
                kernel_alignment : BOOLEAN,
                perc_loss : BOOLEAN,
                inherit_style : BOOLEAN,
                ckpt : BOOLEAN,
                ckpt_s : {name},
                same_arch : BOOLEAN,
                mixing : MixingChoices,
                batch : {BatchDefault},
                path_batch_shrink : {PathBatchShrink},
                start_iter : {0},
                launch : {1},
                rank : Ranks,
                world_size : {Cardinality(Ranks)},
                loader_empty : BOOLEAN,
                f_maps_match : BOOLEAN] :
            /\ a.inherit_style => a.ckpt
            /\ ~a.f_maps_match => a.kernel_alignment
            /\ ~a.same_arch => (a.ckpt /\ a.ckpt_s # NoFile)
            /\ a.augment_p > 0 => a.augment} :
        it \in IterChoices(StartOf(name))} :
      name \in {NoFile} \cup {f.name : f \in dir}}

\* lines 453-495: the networks as constructed, after accumulate(g_ema,
\* generator, 0) and accumulate(student_g_ema, student_generator, 0)
ConstructedWeights ==
    [m \in Models |->
        CASE m = "g_ema" ->
               Accumulate(InitWeight("g_ema"), InitWeight("generator"), 0, 1)
          [] m = "student_g_ema" ->
               Accumulate(InitWeight("student_g_ema"),
                          InitWeight("student_generator"), 0, 1)
          [] OTHER -> InitWeight(m)]

NoNoise == [id |-> 0, n |-> 0, batch |-> 0]

\* a launch of one process: no process group
NoGroup == <<>>

\* no function under call
NoCall == [fn |-> "", done |-> TRUE]

\* the process when the arguments are parsed and the networks and optimizers
\* are constructed, on an experiment directory left by an earlier run
Init ==
    /\ \E a \in ArgSpace(EarlierFiles) : args = a
    /\ pc = "load_teacher"
    /\ files = EarlierFiles
    /\ samples = {}
    /\ w = ConstructedWeights
    /\ rg = [m \in Models |-> TRUE]
    /\ grad = [m \in Models |-> 0]
    /\ g_optim = NewAdam(args.g_reg_every)
    /\ d_optim = NewAdam(args.d_reg_every)
    /\ idx = 0
    /\ i = 0
    /\ ada_aug_p = 0
    /\ ada_augment = [built |-> FALSE, p |-> 0]
    /\ r1_loss = 0
    /\ path_loss = 0
    /\ path_lengths = 0
    /\ mean_path_length = 0
    /\ mean_path_length_avg = 0
    /\ loss_dict = <<>>
    /\ noise = NoNoise
    /\ nDraws = 0
    /\ graph = {}
    /\ group = NoGroup
    /\ call = NoCall
    /\ hist = NoHist

Crash(err) ==
    /\ pc' = "crashed"
    /\ hist' = [hist EXCEPT !.error = err]

\* the names of a state dict that contain 'style'
StyleDict(sd) == [k \in {n \in DOMAIN sd : n = "style"} |-> sd[k]]

\* model.load_state_dict(sd, strict=False): the names given are overwritten
LoadNonStrict(params, sd) ==
    [k \in DOMAIN params |-> IF k \in DOMAIN sd THEN sd[k] ELSE params[k]]

\* lines 498-520: load the teacher checkpoint
LoadTeacher ==
    /\ UNCHANGED <<group, call>>
    /\ pc = "load_teacher"
    /\ pc' = "load_student"
    /\ IF args.ckpt
       THEN LET w1 == [w EXCEPT
                         !["generator"] = LoadNonStrict(@, TeacherCkpt.g),
                         !["discriminator"] = TeacherCkpt.d,
                         !["g_ema"] = LoadNonStrict(@, TeacherCkpt.g_ema)]
            IN  w' = IF args.inherit_style
                     THEN [w1 EXCEPT
                             !["student_generator"] =
                                 LoadNonStrict(@, StyleDict(w1["generator"])),
                             !["student_g_ema"] =
                                 LoadNonStrict(@, StyleDict(w1["g_ema"]))]
                     ELSE w1
       ELSE w' = w
    /\ UNCHANGED <<args, files, samples, rg, grad, g_optim, d_optim, idx, i,
                   ada_aug_p, ada_augment, r1_loss, path_loss, path_lengths,
                   mean_path_length, mean_path_length_avg, loss_dict, noise,
                   nDraws, graph, hist>>

\* variant: training resumes at the iteration after the checkpointed one
ParseStartIter_Following(name, start) ==
    LET r == IntParse(SplitExtRoot(name)) IN IF r.ok THEN r.val + 1 ELSE start

\* lines 526-530: the start index parsed from the checkpoint's file name;
\* ValueError is caught and ignored
ParseStartIter(name, start) ==
    LET r == IntParse(SplitExtRoot(name)) IN IF r.ok THEN r.val ELSE start

\* lines 531-532: the state dicts given to student_generator.load_state_dict
\* and student_g_ema.load_state_dict; `ckpt` is the teacher checkpoint
StudentWeightsSource(ckpt, ckpt_s) == [g |-> ckpt.g, g_ema |-> ckpt.g_ema]

\* lines 523-535: continue training the student network
LoadStudent ==
    /\ UNCHANGED <<group, call>>
    /\ pc = "load_student"
    /\ IF args.ckpt_s = NoFile
       THEN /\ pc' = "train"
            /\ UNCHANGED <<args, w, g_optim, d_optim, hist>>
       ELSE LET ckpt_s == LoadFile(files, args.ckpt_s)
                start == ParseStartIter(args.ckpt_s, args.start_iter)
            IN  /\ args' = [args EXCEPT !.start_iter = start]
                /\ IF ~args.ckpt
                   THEN \* `ckpt` was never assigned
                        /\ Crash("NameError")
                        /\ UNCHANGED <<w, g_optim, d_optim>>
                   ELSE IF ~args.same_arch
                   THEN \* size mismatch between teacher and student tensors
                        /\ Crash("RuntimeError")
                        /\ UNCHANGED <<w, g_optim, d_optim>>
                   ELSE LET src == StudentWeightsSource(TeacherCkpt, ckpt_s)
                        IN  /\ w' = [w EXCEPT !["student_generator"] = src.g,
                                              !["student_g_ema"] = src.g_ema]
                            /\ g_optim' = ckpt_s.g_optim
                            /\ d_optim' = ckpt_s.d_optim
                            /\ pc' = "train"
                            /\ hist' = [hist EXCEPT !.loaded = <<ckpt_s>>]
    /\ UNCHANGED <<files, samples, rg, grad, idx, i, ada_aug_p, ada_augment,
                   r1_loss, path_loss, path_lengths, mean_path_length,
                   mean_path_length_avg, loss_dict, noise, nDraws, graph>>

----------------------------------------------------------------------------
(* train *)

\* line 172
InitialAugP(a) == IF a.augment_p > 0 THEN a.augment_p ELSE 0

\* variant: the fixed probability is not consulted
AdaptiveMode_IgnoresP(a) == a.augment

\* lines 175, 226: adaptive augmentation is in use
AdaptiveMode(a) == a.augment /\ a.augment_p = 0

\* lines 140-178
TrainEntry ==
    /\ UNCHANGED <<group, call>>
    /\ pc = "train"
    /\ pc' = "loop"
    /\ mean_path_length' = 0
    /\ r1_loss' = 0
    /\ path_loss' = 0
    /\ path_lengths' = 0
    /\ mean_path_length_avg' = 0
    /\ loss_dict' = <<>>
    /\ ada_aug_p' = InitialAugP(args)
    /\ ada_augment' = [built |-> AdaptiveMode(args), p |-> 0]
    /\ idx' = 0
    /\ hist' = [hist EXCEPT !.entry = w]
    /\ UNCHANGED <<args, files, samples, w, rg, grad, g_optim, d_optim, i,
                   noise, nDraws, graph>>

\* variant: the budget itself already counts as exhausted
PastBudget_Inclusive(it, budget) == it >= budget

\* line 183
PastBudget(it, budget) == it > budget

\* lines 180-185: `for idx in range(args.iter)`, i = idx + start_iter, break
LoopHead ==
    /\ UNCHANGED <<group, call>>
    /\ pc = "loop"
    /\ IF idx >= args.iter
       THEN /\ pc' = "done"
            /\ UNCHANGED <<idx, i, hist>>
       ELSE /\ idx' = idx + 1
            /\ i' = idx + args.start_iter
            /\ IF PastBudget(i', args.iter)
               THEN /\ pc' = "done"
                    /\ UNCHANGED hist
               ELSE /\ pc' = "fetch"
                    /\ hist' = [hist EXCEPT !.ops = <<>>]
    /\ UNCHANGED <<args, files, samples, w, rg, grad, g_optim, d_optim,
                   ada_aug_p, ada_augment, r1_loss, path_loss, path_lengths,
                   mean_path_length, mean_path_length_avg, loss_dict, noise,
                   nDraws, graph>>

\* lines 187-188 and sample_data: next(loader) spins for ever on a loader
\* that yields no batch
FetchBatch ==
    /\ UNCHANGED <<group, call>>
    /\ pc = "fetch"
    /\ ~args.loader_empty
    /\ pc' = "d_freeze"
    /\ hist' = [hist EXCEPT !.executed = Append(@, i)]
    /\ UNCHANGED <<args, files, samples, w, rg, grad, g_optim, d_optim, idx, i,
                   ada_aug_p, ada_augment, r1_loss, path_loss, path_lengths,
                   mean_path_length, mean_path_length_avg, loss_dict, noise,
                   nDraws, graph>>

\* lines 194-196
DiscFlags(flags) ==
    SetRequiresGrad("student_discriminator", TRUE,
        SetRequiresGrad("student_generator", FALSE,
            SetRequiresGrad("generator", FALSE, flags)))

DiscFreeze ==
    /\ UNCHANGED <<group, call>>
    /\ pc = "d_freeze"
    /\ pc' = "d_forward"
    /\ rg' = DiscFlags(rg)
    /\ UNCHANGED <<args, files, samples, w, grad, g_optim, d_optim, idx, i,
                   ada_aug_p, ada_augment, r1_loss, path_loss, path_lengths,
                   mean_path_length, mean_path_length_avg, loss_dict, noise,
                   nDraws, graph, hist>>

\* a fresh latent batch from mixing_noise(batch, args.latent, args.mixing)
Draw(batch, u) == [id |-> nDraws + 1, n |-> MixingNoise(args.mixing, u), batch |-> batch]

\* lines 198-219: fakes from the student generator, predictions, d_loss
DiscForward ==
    /\ UNCHANGED <<group, call>>
    /\ pc = "d_forward"
    /\ pc' = "d_update"
    /\ \E u \in DrawsFor(args.mixing) :
          /\ noise' = Draw(args.batch, u)
          /\ hist' = Log(hist,
                 <<Ev("student_generator(noise)", rg, ada_aug_p, noise'.id)>>
                 \o (IF args.augment
                     THEN <<Ev("augment", rg, ada_aug_p, 0)>> ELSE <<>>))
    /\ nDraws' = nDraws + 1
    /\ graph' = Tracked({"student_generator", "student_discriminator"}, rg)
    /\ loss_dict' =
          ("d" :> DLogisticLoss(w["student_discriminator"], w["student_generator"]))
          @@ ("real_score" :> w["student_discriminator"].convs)
          @@ ("fake_score" :> w["student_generator"].convs)
          @@ loss_dict
    /\ UNCHANGED <<args, files, samples, w, rg, grad, g_optim, d_optim, idx, i,
                   ada_aug_p, ada_augment, r1_loss, path_loss, path_lengths,
                   mean_path_length, mean_path_length_avg>>

\* lines 221-223: zero_grad, backward, d_optim.step()
DiscUpdate ==
    /\ UNCHANGED <<group, call>>
    /\ pc = "d_update"
    /\ pc' = "ada"
    /\ LET g1 == Backward(graph, ZeroGrad("student_discriminator", grad))
       IN  /\ grad' = g1
           /\ w' = StepWeights(d_optim, DOptimParams, w, g1)
    /\ d_optim' = StepState(d_optim)
    /\ hist' = Log(hist, <<Ev("student_discriminator.zero_grad", rg, ada_aug_p, 0),
                           Ev("d_loss.backward", rg, ada_aug_p, 0),
                           Ev("d_optim.step", rg, ada_aug_p, 0)>>)
    /\ UNCHANGED <<args, files, samples, rg, g_optim, idx, i, ada_aug_p,
                   ada_augment, r1_loss, path_loss, path_lengths,
                   mean_path_length, mean_path_length_avg, loss_dict, noise,
                   nDraws, graph>>

\* AdaptiveAugment.tune(real_pred): the probability moves one step up when the
\* sign statistic of the real predictions exceeds the target, down otherwise,
\* clamped to [0, 100] percent
Tune(p, above) == IF above THEN Min(100, p + AdaStep) ELSE Max(0, p - AdaStep)

\* lines 225-228
AdaTune ==
    /\ UNCHANGED <<group, call>>
    /\ pc = "ada"
    /\ pc' = "d_reg"
    /\ IF AdaptiveMode(args)
       THEN \E above \in BOOLEAN :
               /\ ada_augment' = [ada_augment EXCEPT !.p = Tune(@, above)]
               /\ ada_aug_p' = ada_augment'.p
               /\ hist' = [Log(hist, <<Ev("ada_augment.tune", rg, ada_aug_p, 0)>>)
                              EXCEPT !.tuned = @ + 1]
       ELSE UNCHANGED <<ada_augment, ada_aug_p, hist>>
    /\ UNCHANGED <<args, files, samples, w, rg, grad, g_optim, d_optim, idx, i,
                   r1_loss, path_loss, path_lengths, mean_path_length,
                   mean_path_length_avg, loss_dict, noise, nDraws, graph>>

\* variant: the cadence tested one iteration late
DRegularize_OffByOne(it, every) == (it + 1) % every = 0

\* line 231
DRegularize(it, every) == it % every = 0

\* line 250: the value put in loss_dict["r1"]
ReportedR1(r1) == r1

\* lines 230-250: R1 regularization of the discriminator
DiscRegularize ==
    /\ UNCHANGED <<group, call>>
    /\ pc = "d_reg"
    /\ pc' = "g_freeze"
    /\ IF DRegularize(i, args.d_reg_every)
       THEN LET r1 == D_R1Loss(w["student_discriminator"])
                deps == Tracked({"student_discriminator"}, rg)
                g1 == Backward(deps, ZeroGrad("student_discriminator", grad))
            IN  /\ r1_loss' = r1
                /\ graph' = deps
                /\ grad' = g1
                /\ w' = StepWeights(d_optim, DOptimParams, w, g1)
                /\ d_optim' = StepState(d_optim)
                /\ hist' = [Log(hist,
                         (IF args.augment
                          THEN <<Ev("augment", rg, ada_aug_p, 0)>> ELSE <<>>)
                         \o <<Ev("d_r1_loss", rg, ada_aug_p, 0),
                              Ev("student_discriminator.zero_grad", rg, ada_aug_p, 0),
                              Ev("r1_loss.backward", rg, ada_aug_p, 0),
                              Ev("d_optim.step", rg, ada_aug_p, 0)>>)
                       EXCEPT !.r1_at = i, !.r1_val = r1]
       ELSE UNCHANGED <<r1_loss, graph, grad, w, d_optim, hist>>
    /\ loss_dict' = ("r1" :> ReportedR1(r1_loss')) @@ loss_dict
    /\ UNCHANGED <<args, files, samples, rg, g_optim, idx, i, ada_aug_p,
                   ada_augment, path_loss, path_lengths, mean_path_length,
                   mean_path_length_avg, noise, nDraws>>

\* variant: the student discriminator is not frozen for the generator step
GenFlags_DiscLeftOn(flags) ==
    SetRequiresGrad("generator", TRUE,
        SetRequiresGrad("student_generator", TRUE, flags))

\* lines 260-262
GenFlags(flags) ==
    SetRequiresGrad("student_discriminator", FALSE,
        SetRequiresGrad("generator", TRUE,
            SetRequiresGrad("student_generator", TRUE, flags)))

GenFreeze ==
    /\ UNCHANGED <<group, call>>
    /\ pc = "g_freeze"
    /\ pc' = "g_forward"
    /\ rg' = GenFlags(rg)
    /\ UNCHANGED <<args, files, samples, w, grad, g_optim, d_optim, idx, i,
                   ada_aug_p, ada_augment, r1_loss, path_loss, path_lengths,
                   mean_path_length, mean_path_length_avg, loss_dict, noise,
                   nDraws, graph, hist>>

\* generator(noise, return_f_maps=True) of class Generator: the batch
\* dimension of the feature maps returned; the teacher's is the batch size of
\* its input unless the launch is one in which the two networks disagree
FMapsBatch(m, batch, a) ==
    IF m = "generator" /\ ~a.f_maps_match THEN batch \div 2 ELSE batch

\* variant: the batch dimensions are not compared
KABatchOk_Unchecked(bx, by) == TRUE

\* KA(X, Y): the assertion on the batch dimension
KABatchOk(bx, by) == bx = by

\* lines 265-293: the networks g_loss is computed from
GenLossDeps(a) ==
    {"student_generator", "student_discriminator"}
    \cup (IF a.kernel_alignment \/ a.perc_loss THEN {"generator"} ELSE {})

\* variant: the student generator is run on the batch drawn before
GenInputs_StaleStudent(z) == [teacher |-> z, student |-> noise]

\* lines 265-266: the latent batch each generator is invoked on
GenInputs(z) == [teacher |-> z, student |-> z]

\* lines 264-296: teacher and student on the same noise, g_loss
GenForward ==
    /\ UNCHANGED <<group, call>>
    /\ pc = "g_forward"
    /\ \E u \in DrawsFor(args.mixing) :
          /\ noise' = Draw(args.batch, u)
          /\ LET f_maps_t == FMapsBatch("generator", noise'.batch, args)
                 f_maps_s == FMapsBatch("student_generator", noise'.batch, args)
                 in == GenInputs(noise')
                 evs == <<Ev("generator(noise)", rg, ada_aug_p, in.teacher.id),
                          Ev("student_generator(noise)", rg, ada_aug_p, in.student.id)>>
                        \o (IF args.augment
                            THEN <<Ev("augment", rg, ada_aug_p, 0)>> ELSE <<>>)
             IN  IF args.kernel_alignment /\ ~KABatchOk(f_maps_s, f_maps_t)
                 THEN /\ pc' = "crashed"
                      /\ hist' = [Log(hist, evs) EXCEPT !.error = "AssertionError"]
                      /\ UNCHANGED loss_dict
                 ELSE /\ pc' = "g_update"
                      /\ hist' = Log(hist, evs)
                      /\ loss_dict' =
                            ("g" :> GNonsaturatingLoss(w["student_discriminator"],
                                                       w["student_generator"]))
                            @@ loss_dict
    /\ nDraws' = nDraws + 1
    /\ graph' = Tracked(GenLossDeps(args), rg)
    /\ UNCHANGED <<args, files, samples, w, rg, grad, g_optim, d_optim, idx, i,
                   ada_aug_p, ada_augment, r1_loss, path_loss, path_lengths,
                   mean_path_length, mean_path_length_avg>>

\* variant: the EMA generator is also blended right after the main generator
\* update
GenUpdate_AlsoBlends ==
    /\ UNCHANGED <<group, call>>
    /\ pc = "g_update"
    /\ pc' = "g_reg"
    /\ LET g1 == Backward(graph, ZeroGrad("student_generator", grad))
           w1 == StepWeights(g_optim, GOptimParams, w, g1)
       IN  /\ grad' = g1
           /\ w' = [w1 EXCEPT !["student_g_ema"] =
                       Accumulate(@, w1["student_generator"], AccumNum, AccumDen)]
    /\ g_optim' = StepState(g_optim)
    /\ hist' = Log(hist, <<Ev("student_generator.zero_grad", rg, ada_aug_p, 0),
                           Ev("g_loss.backward", rg, ada_aug_p, 0),
                           Ev("g_optim.step", rg, ada_aug_p, 0),
                           Ev("accumulate", rg, ada_aug_p, 0)>>)
    /\ UNCHANGED <<args, files, samples, rg, d_optim, idx, i, ada_aug_p,
                   ada_augment, r1_loss, path_loss, path_lengths,
                   mean_path_length, mean_path_length_avg, loss_dict, noise,
                   nDraws, graph>>

\* lines 298-300: zero_grad, backward, g_optim.step()
GenUpdate ==
    /\ UNCHANGED <<group, call>>
    /\ pc = "g_update"
    /\ pc' = "g_reg"
    /\ LET g1 == Backward(graph, ZeroGrad("student_generator", grad))
       IN  /\ grad' = g1
           /\ w' = StepWeights(g_optim, GOptimParams, w, g1)
    /\ g_optim' = StepState(g_optim)
    /\ hist' = Log(hist, <<Ev("student_generator.zero_grad", rg, ada_aug_p, 0),
                           Ev("g_loss.backward", rg, ada_aug_p, 0),
                           Ev("g_optim.step", rg, ada_aug_p, 0)>>)
    /\ UNCHANGED <<args, files, samples, rg, d_optim, idx, i, ada_aug_p,
                   ada_augment, r1_loss, path_loss, path_lengths,
                   mean_path_length, mean_path_length_avg, loss_dict, noise,
                   nDraws, graph>>

\* variant: the test of the remainder inverted
GRegularize_Inverted(it, every) == it % every # 0

\* line 302
GRegularize(it, every) == it % every = 0

\* reduce_sum(tensor) of module distributed: the sum over the processes, whose
\* replicas hold the same value
ReduceSum(x, world_size) == x * world_size

\* variant: the path lengths of the current generator are reported
ReportedPathLength_Current(lengths) == w["student_generator"].style

\* line 331: the value put in loss_dict["path_length"]
ReportedPathLength(lengths) == lengths

\* lines 302-331: path-length regularization of the generator
GenRegularize ==
    /\ UNCHANGED <<group, call>>
    /\ pc = "g_reg"
    /\ pc' = "ema"
    /\ IF GRegularize(i, args.g_reg_every)
       THEN \E u \in DrawsFor(args.mixing) :
            LET path_batch_size == Max(1, args.batch \div args.path_batch_shrink)
                z == Draw(path_batch_size, u)
                pr == GPathRegularize(w["student_generator"], mean_path_length)
                deps == Tracked({"student_generator"}, rg)
                g1 == Backward(deps, ZeroGrad("student_generator", grad))
            IN  /\ noise' = z
                /\ nDraws' = nDraws + 1
                /\ path_loss' = pr.penalty
                /\ mean_path_length' = pr.mean
                /\ path_lengths' = pr.lengths
                /\ graph' = deps
                /\ grad' = g1
                /\ w' = StepWeights(g_optim, GOptimParams, w, g1)
                /\ g_optim' = StepState(g_optim)
                /\ mean_path_length_avg' =
                       ReduceSum(pr.mean, args.world_size) \div args.world_size
                /\ hist' = [Log(hist,
                       <<Ev("student_generator(noise)", rg, ada_aug_p, z.id),
                         Ev("g_path_regularize", rg, ada_aug_p, 0),
                         Ev("student_generator.zero_grad", rg, ada_aug_p, 0),
                         Ev("weighted_path_loss.backward", rg, ada_aug_p, 0),
                         Ev("g_optim.step", rg, ada_aug_p, 0),
                         Ev("reduce_sum", rg, ada_aug_p, 0)>>)
                       EXCEPT !.path_at = i,
                              !.path_val = [loss |-> pr.penalty,
                                            lengths |-> pr.lengths,
                                            mean |-> pr.mean]]
       ELSE UNCHANGED <<noise, nDraws, path_loss, mean_path_length, path_lengths,
                        graph, grad, w, g_optim, mean_path_length_avg, hist>>
    /\ loss_dict' = ("path" :> path_loss')
                    @@ ("path_length" :> ReportedPathLength(path_lengths'))
                    @@ loss_dict
    /\ UNCHANGED <<args, files, samples, rg, d_optim, idx, i, ada_aug_p,
                   ada_augment, r1_loss>>

\* line 333: accumulate(student_g_ema, g_module, accum)
EmaUpdate ==
    /\ UNCHANGED <<group, call>>
    /\ pc = "ema"
    /\ pc' = "reduce"
    /\ w' = [w EXCEPT !["student_g_ema"] =
                Accumulate(@, w["student_generator"], AccumNum, AccumDen)]
    /\ hist' = Log(hist, <<Ev("accumulate", rg, ada_aug_p, 0)>>)
    /\ UNCHANGED <<args, files, samples, rg, grad, g_optim, d_optim, idx, i,
                   ada_aug_p, ada_augment, r1_loss, path_loss, path_lengths,
                   mean_path_length, mean_path_length_avg, loss_dict, noise,
                   nDraws, graph>>

\* lines 335-343: reduce_loss_dict and the scalars read from it
ReduceLosses ==
    /\ UNCHANGED <<group, call>>
    /\ pc = "reduce"
    /\ pc' = "log"
    /\ hist' = Log(hist, <<Ev("reduce_loss_dict", rg, ada_aug_p, 0)>>)
    /\ UNCHANGED <<args, files, samples, w, rg, grad, g_optim, d_optim, idx, i,
                   ada_aug_p, ada_augment, r1_loss, path_loss, path_lengths,
                   mean_path_length, mean_path_length_avg, loss_dict, noise,
                   nDraws, graph>>

\* variant: the rank is not tested
RankZero_AnyRank(a) == TRUE

\* line 345: get_rank() == 0
RankZero(a) == a.rank = 0

\* lines 345-368: progress description and metrics sink, on rank zero
LogProgress ==
    /\ UNCHANGED <<group, call>>
    /\ pc = "log"
    /\ IF RankZero(args)
       THEN /\ pc' = "sample"
            /\ hist' = Log(hist, <<Ev("log", rg, ada_aug_p, 0)>>)
       ELSE /\ pc' = "loop"
            /\ UNCHANGED hist
    /\ UNCHANGED <<args, files, samples, w, rg, grad, g_optim, d_optim, idx, i,
                   ada_aug_p, ada_augment, r1_loss, path_loss, path_lengths,
                   mean_path_length, mean_path_length_avg, loss_dict, noise,
                   nDraws, graph>>

\* line 370
SampleDue(it) == it % SampleEvery = 0

\* lines 370-380: sample grid from the EMA generator
SaveSample ==
    /\ UNCHANGED <<group, call>>
    /\ pc = "sample"
    /\ pc' = "save"
    /\ IF SampleDue(i)
       THEN /\ samples' = samples \cup {SampleName(i)}
            /\ hist' = [Log(hist, <<Ev("save_image", rg, ada_aug_p, 0)>>)
                          EXCEPT !.written = Append(@,
                              [kind |-> "sample", name |-> SampleName(i),
                               at |-> i, launch |-> args.launch])]
       ELSE UNCHANGED <<samples, hist>>
    /\ UNCHANGED <<args, files, w, rg, grad, g_optim, d_optim, idx, i,
                   ada_aug_p, ada_augment, r1_loss, path_loss, path_lengths,
                   mean_path_length, mean_path_length_avg, loss_dict, noise,
                   nDraws, graph>>

\* line 382
SaveDue(it) == it % SaveEvery = 0

\* lines 382-394: checkpoint
SaveCheckpoint ==
    /\ UNCHANGED <<group, call>>
    /\ pc = "save"
    /\ pc' = "loop"
    /\ IF SaveDue(i)
       THEN /\ files' = SaveFile(files, CkptName(i),
                                 CkptOf(w, g_optim, d_optim, ada_aug_p))
            /\ hist' = [Log(hist, <<Ev("torch.save", rg, ada_aug_p, 0)>>)
                          EXCEPT !.written = Append(@,
                              [kind |-> "checkpoint", name |-> CkptName(i),
                               at |-> i, launch |-> args.launch])]
       ELSE UNCHANGED <<files, hist>>
    /\ UNCHANGED <<args, samples, w, rg, grad, g_optim, d_optim, idx, i,
                   ada_aug_p, ada_augment, r1_loss, path_loss, path_lengths,
                   mean_path_length, mean_path_length_avg, loss_dict, noise,
                   nDraws, graph>>

----------------------------------------------------------------------------

Next ==
    \/ LoadTeacher
    \/ LoadStudent
    \/ TrainEntry
    \/ LoopHead
    \/ FetchBatch
    \/ DiscFreeze
    \/ DiscForward
    \/ DiscUpdate
    \/ AdaTune
    \/ DiscRegularize
    \/ GenFreeze
    \/ GenForward
    \/ GenUpdate
    \/ GenRegularize
    \/ EmaUpdate
    \/ ReduceLosses
    \/ LogProgress
    \/ SaveSample
    \/ SaveCheckpoint

Spec == Init /\ [][Next]_vars

----------------------------------------------------------------------------
(* Save and resume: the program launched again on the experiment directory  *)
(* its earlier launches wrote, starting from an empty directory.            *)

\* the arguments of launch n on directory dir: kernel alignment, one
\* regularization cadence each, adaptive augmentation when augmenting
ResumeArgSpace(dir, n) ==
    UNION {
      UNION {
        {a \in [iter : {it},
                d_reg_every : {1},
                g_reg_every : {MaxRegEvery},
                augment : BOOLEAN,
                augment_p : {0},
                kernel_alignment : {TRUE},
                perc_loss : {FALSE},
                inherit_style : {FALSE},
                ckpt : BOOLEAN,
                ckpt_s : {name},
                same_arch : BOOLEAN,
                mixing : {0},
                batch : {BatchDefault},
                path_batch_shrink : {PathBatchShrink},
                start_iter : {0},
                launch : {n},
                rank : Ranks,
                world_size : {Cardinality(Ranks)},
                loader_empty : {FALSE},
                f_maps_match : {TRUE}] :
            ~a.same_arch => (a.ckpt /\ a.ckpt_s # NoFile)} :
        it \in IterChoices(StartOf(name))} :
      name \in {NoFile} \cup {f.name : f \in dir}}

InitResume ==
    /\ \E a \in ResumeArgSpace({}, 1) : args = a
    /\ pc = "load_teacher"
    /\ files = {}
    /\ samples = {}
    /\ w = ConstructedWeights
    /\ rg = [m \in Models |-> TRUE]
    /\ grad = [m \in Models |-> 0]
    /\ g_optim = NewAdam(args.g_reg_every)
    /\ d_optim = NewAdam(args.d_reg_every)
    /\ idx = 0
    /\ i = 0
    /\ ada_aug_p = 0
    /\ ada_augment = [built |-> FALSE, p |-> 0]
    /\ r1_loss = 0
    /\ path_loss = 0
    /\ path_lengths = 0
    /\ mean_path_length = 0
    /\ mean_path_length_avg = 0
    /\ loss_dict = <<>>
    /\ noise = NoNoise
    /\ nDraws = 0
    /\ graph = {}
    /\ group = NoGroup
    /\ call = NoCall
    /\ hist = NoHist

\* the program is started again once the previous process has ended: a new
\* process, the files of the experiment directory kept
Relaunch ==
    /\ UNCHANGED <<group, call>>
    /\ pc \in {"done", "crashed"}
    /\ args.launch < MaxRuns
    /\ \E a \in ResumeArgSpace(files, args.launch + 1) : args' = a
    /\ pc' = "load_teacher"
    /\ w' = ConstructedWeights
    /\ rg' = [m \in Models |-> TRUE]
    /\ grad' = [m \in Models |-> 0]
    /\ g_optim' = NewAdam(args'.g_reg_every)
    /\ d_optim' = NewAdam(args'.d_reg_every)
    /\ idx' = 0
    /\ i' = 0
    /\ ada_aug_p' = 0
    /\ ada_augment' = [built |-> FALSE, p |-> 0]
    /\ r1_loss' = 0
    /\ path_loss' = 0
    /\ path_lengths' = 0
    /\ mean_path_length' = 0
    /\ mean_path_length_avg' = 0
    /\ loss_dict' = <<>>
    /\ noise' = NoNoise
    /\ nDraws' = 0
    /\ graph' = {}
    /\ hist' = [NoHist EXCEPT !.written = hist.written]
    /\ UNCHANGED <<files, samples>>

NextResume == Next \/ Relaunch

SpecResume == InitResume /\ [][NextResume]_vars

----------------------------------------------------------------------------
(* Distributed launch: one process per rank, each running train with the    *)
(* same arguments on a replica of its own.  Only what the processes share   *)
(* is kept per process: its position in the loop and the collective         *)
(* reductions it has issued (reduce_sum, reduce_loss_dict; the gradient     *)
(* averaging inside the data-parallel wrapper is not a statement of         *)
(* compress.py).  A collective returns when every process of the group has  *)
(* issued its collective of the same sequence number and kind.              *)

\* the variables of a single process
local == <<args, pc, files, samples, w, rg, grad, g_optim, d_optim, idx, i,
           ada_aug_p, ada_augment, r1_loss, path_loss, path_lengths,
           mean_path_length, mean_path_length_avg, loss_dict, noise, nDraws,
           graph, hist>>

\* lines 453-495 for a process that has not started loading
Constructed ==
    /\ pc = "load_teacher"
    /\ samples = {}
    /\ w = ConstructedWeights
    /\ rg = [m \in Models |-> TRUE]
    /\ grad = [m \in Models |-> 0]
    /\ g_optim = NewAdam(args.g_reg_every)
    /\ d_optim = NewAdam(args.d_reg_every)
    /\ idx = 0
    /\ i = 0
    /\ ada_aug_p = 0
    /\ ada_augment = [built |-> FALSE, p |-> 0]
    /\ r1_loss = 0
    /\ path_loss = 0
    /\ path_lengths = 0
    /\ mean_path_length = 0
    /\ mean_path_length_avg = 0
    /\ loss_dict = <<>>
    /\ noise = NoNoise
    /\ nDraws = 0
    /\ graph = {}
    /\ hist = NoHist

\* the arguments train receives in every process of the group: the same
\* command line, the start index parsed from --ckpt_s
DistArgSpace ==
    {[a EXCEPT !.start_iter = StartOf(a.ckpt_s)] :
        a \in {b \in ArgSpace(EarlierFiles) :
                  /\ b.rank = 0
                  /\ b.d_reg_every = 1
                  /\ ~b.augment /\ ~b.kernel_alignment /\ ~b.perc_loss
                  /\ ~b.inherit_style /\ b.same_arch /\ ~b.loader_empty
                  /\ b.f_maps_match
                  /\ b.ckpt_s # NoFile => b.ckpt}}

\* a process entering train
ProcessAtEntry ==
    [pc |-> "loop", idx |-> 0, i |-> 0, last |-> -1, coll |-> <<>>, out |-> {}]

InitDist ==
    /\ \E a \in DistArgSpace : args = a
    /\ files = EarlierFiles
    /\ Constructed
    /\ group = [r \in Ranks |-> ProcessAtEntry]
    /\ call = NoCall

\* a collective of the given kind issued in iteration `at`
Collective(kind, at) == [kind |-> kind, at |-> at]

\* the collective process r is blocked in has been issued, with the same
\* kind, by every process of the group
Matched(r) ==
    LET n == Len(group[r].coll)
    IN  \A q \in Ranks :
           /\ Len(group[q].coll) >= n
           /\ group[q].coll[n].kind = group[r].coll[n].kind

\* lines 180-185 in process r
DistLoopHead(r) ==
    /\ group[r].pc = "loop"
    /\ LET p == group[r]
       IN  IF p.idx >= args.iter
           THEN group' = [group EXCEPT ![r].pc = "done"]
           ELSE LET it == p.idx + args.start_iter
                IN  group' = [group EXCEPT
                                 ![r].idx = p.idx + 1,
                                 ![r].i = it,
                                 ![r].pc = IF PastBudget(it, args.iter)
                                           THEN "done" ELSE "steps"]
    /\ UNCHANGED <<local, call>>

\* lines 187-300 in process r: the discriminator and generator updates on
\* the process's own replica
DistSteps(r) ==
    /\ group[r].pc = "steps"
    /\ group' = [group EXCEPT ![r].pc = "g_reg", ![r].last = group[r].i]
    /\ UNCHANGED <<local, call>>

\* lines 302-325 in process r: reduce_sum(mean_path_length) inside
\* `if g_regularize`
DistGenRegularize(r) ==
    /\ group[r].pc = "g_reg"
    /\ IF GRegularize(group[r].i, args.g_reg_every)
       THEN group' = [group EXCEPT
                        ![r].coll = Append(@, Collective("reduce_sum", group[r].i)),
                        ![r].pc = "in_reduce_sum"]
       ELSE group' = [group EXCEPT ![r].pc = "reduce"]
    /\ UNCHANGED <<local, call>>

\* variant: the metrics are reduced inside the rank-zero branch
ReducesLosses_RankZeroOnly(r) == RankZero([rank |-> r])

\* line 335: reduce_loss_dict(loss_dict) is under no test of the rank
ReducesLosses(r) == TRUE

\* lines 333-343 in process r
DistReduceLosses(r) ==
    /\ group[r].pc = "reduce"
    /\ IF ReducesLosses(r)
       THEN group' = [group EXCEPT
                        ![r].coll = Append(@, Collective("reduce_loss_dict", group[r].i)),
                        ![r].pc = "in_reduce_loss_dict"]
       ELSE group' = [group EXCEPT ![r].pc = "rank0"]
    /\ UNCHANGED <<local, call>>

\* the collective process r is blocked in returns
DistReturn(r) ==
    /\ group[r].pc \in {"in_reduce_sum", "in_reduce_loss_dict"}
    /\ Matched(r)
    /\ group' = [group EXCEPT ![r].pc = IF @ = "in_reduce_sum"
                                       THEN "reduce" ELSE "rank0"]
    /\ UNCHANGED <<local, call>>

\* lines 345-394 in process r: log, sample and checkpoint on rank zero
DistRankZero(r) ==
    /\ group[r].pc = "rank0"
    /\ group' = [group EXCEPT
                    ![r].pc = "loop",
                    ![r].out = IF RankZero([rank |-> r])
                               THEN @ \cup (IF SampleDue(group[r].i)
                                            THEN {SampleName(group[r].i)} ELSE {})
                                      \cup (IF SaveDue(group[r].i)
                                            THEN {CkptName(group[r].i)} ELSE {})
                               ELSE @]
    /\ UNCHANGED <<local, call>>

DistProcess(r) ==
    \/ DistLoopHead(r)
    \/ DistSteps(r)
    \/ DistGenRegularize(r)
    \/ DistReduceLosses(r)
    \/ DistReturn(r)
    \/ DistRankZero(r)

NextDist == \E r \in Ranks : DistProcess(r)

\* every process that can take a step eventually does
SpecDist == InitDist /\ [][NextDist]_vars /\ \A r \in Ranks : WF_vars(DistProcess(r))

----------------------------------------------------------------------------
(* A long run: a fresh launch on an empty directory that runs past the      *)
(* first sample period, without augmentation or style mixing.               *)

LongArgSpace ==
    [iter : {SampleEvery + 1},
     d_reg_every : {1},
     g_reg_every : {MaxRegEvery},
     augment : {FALSE},
     augment_p : {0},
     kernel_alignment : {FALSE},
     perc_loss : {FALSE},
     inherit_style : {FALSE},
     ckpt : {FALSE},
     ckpt_s : {NoFile},
     same_arch : {TRUE},
     mixing : {0},
     batch : {BatchDefault},
     path_batch_shrink : {PathBatchShrink},
     start_iter : {0},
     launch : {1},
     rank : Ranks,
     world_size : {Cardinality(Ranks)},
     loader_empty : {FALSE},
     f_maps_match : {TRUE}]

InitLong ==
    /\ \E a \in LongArgSpace : args = a
    /\ files = {}
    /\ Constructed
    /\ group = NoGroup
    /\ call = NoCall

SpecLong == InitLong /\ [][Next]_vars

----------------------------------------------------------------------------
(* The helper functions called on inputs of their own: accumulate and       *)
(* mixing_noise.                                                            *)

WeightProbe == {-250, 0, 6000}

\* decay as num / den: 0, accum, 1
DecayProbe == {<<0, 1>>, <<AccumNum, AccumDen>>, <<1, 1>>}

\* random.random() is in [0, 1): percent
UnitDraws == {0, 50, 99}

AccumulateCalls ==
    [fn : {"accumulate"},
     target : [ParamNames("student_g_ema") -> WeightProbe],
     source : [ParamNames("student_generator") -> WeightProbe],
     decay : DecayProbe,
     done : {FALSE},
     out : {<<>>}]

MixingNoiseCalls ==
    [fn : {"mixing_noise"},
     batch : {1, BatchDefault \div PathBatchShrink, BatchDefault},
     latent_dim : {1, LatentDim},
     prob : {0, MixingDefault, 100},
     u : UnitDraws,
     done : {FALSE},
     out : {<<>>}]

InitUnits ==
    /\ \E a \in LongArgSpace : args = a
    /\ files = {}
    /\ Constructed
    /\ group = NoGroup
    /\ \E c \in AccumulateCalls \cup MixingNoiseCalls : call = c

CallAccumulate ==
    /\ call.fn = "accumulate"
    /\ ~call.done
    /\ call' = [call EXCEPT
                   !.done = TRUE,
                   !.out = Accumulate(call.target, call.source,
                                      call.decay[1], call.decay[2])]
    /\ UNCHANGED <<local, group>>

CallMixingNoise ==
    /\ call.fn = "mixing_noise"
    /\ ~call.done
    /\ call' = [call EXCEPT
                   !.done = TRUE,
                   !.out = mixing_noise(call.batch, call.latent_dim,
                                        call.prob, call.u)]
    /\ UNCHANGED <<local, group>>

NextUnits == CallAccumulate \/ CallMixingNoise

SpecUnits == InitUnits /\ [][NextUnits]_vars

----------------------------------------------------------------------------
(* Vocabulary of the properties *)

TrainPcs == {"loop", "fetch", "d_freeze", "d_forward", "d_update", "ada",
             "d_reg", "g_freeze", "g_forward", "g_update", "g_reg", "ema",
             "reduce", "log", "sample", "save"}

\* the names of the operations of the current iteration, in order
OpNames == [k \in 1..Len(hist.ops) |-> hist.ops[k].op]

\* positions of an operation in the current iteration
At(op) == {k \in 1..Len(hist.ops) : hist.ops[k].op = op}

IsStep(name) == name \in {"d_optim.step", "g_optim.step"}

\* the optimizer steps of the current iteration, in order
Steps == SelectSeq(OpNames, IsStep)

BackwardOps == {"d_loss.backward", "r1_loss.backward", "g_loss.backward",
                "weighted_path_loss.backward"}

\* the iteration whose operations hist.ops holds
CurIter == hist.executed[Len(hist.executed)]

\* an iteration has just been completed
IterEnd == pc \in {"loop", "done"} /\ hist.ops # <<>>

\* the discriminator part of the current iteration is over
AfterDReg == \/ pc \in {"g_freeze", "g_forward", "g_update", "g_reg", "ema",
                        "reduce", "log", "sample", "save"}
             \/ IterEnd

Flag(b) == IF b THEN 1 ELSE 0

SD == "student_discriminator"

SG == "student_generator"

----------------------------------------------------------------------------
(* C1: gradient isolation.  Every d_optim.step() of train (main update and  *)
(* R1 update) runs with requires_grad set on the student discriminator and  *)
(* cleared on the student generator, every g_optim.step() (main update and  *)
(* path regularization) with it set on the student generator and cleared on *)
(* the student discriminator; a d_optim step changes no parameters but the  *)
(* student discriminator's, a g_optim step none but the student             *)
(* generator's.                                                             *)

DiscScope(flags) == flags[SD] /\ ~flags[SG]

GenScope(flags) == flags[SG] /\ ~flags[SD]

C1_FlagsAtSteps ==
    /\ \A k \in At("d_optim.step") : DiscScope(hist.ops[k].rg)
    /\ \A k \in At("g_optim.step") : GenScope(hist.ops[k].rg)
    /\ pc \in {"d_update", "d_reg"} => DiscScope(rg)
    /\ pc \in {"g_update", "g_reg"} => GenScope(rg)

C1_StepFrame ==
    /\ pc \in {"d_update", "d_reg"} =>
          /\ \A m \in Models \ {SD} : w'[m] = w[m]
          /\ g_optim' = g_optim
    /\ pc \in {"g_update", "g_reg"} =>
          /\ \A m \in Models \ {SG} : w'[m] = w[m]
          /\ d_optim' = d_optim

\* C1: at every d_optim.step() the student discriminator requires grad and
\* the student generator does not, at every g_optim.step() the reverse; a
\* d_optim step changes only the student discriminator's parameters, a
\* g_optim step only the student generator's
C1_GradientIsolation == []C1_FlagsAtSteps /\ [][C1_StepFrame]_vars

\* an iteration in which all four optimizer steps ran and moved the weights
C1_Witness ==
    /\ pc = "ema"
    /\ Steps = <<"d_optim.step", "d_optim.step", "g_optim.step", "g_optim.step">>
    /\ w[SD] # hist.entry[SD]
    /\ w[SG] # hist.entry[SG]

----------------------------------------------------------------------------
(* C2: R1 cadence.  The R1 penalty is recomputed in iteration i exactly     *)
(* when i mod d_reg_every = 0; the r1 value put in the loss dictionary is   *)
(* the one computed at the most recent such iteration of the run, and 0 if  *)
(* there has been none.                                                     *)

\* the most recent iteration of this run, up to it, at which s mod every = 0
\* (-1 if none)
LastMultiple(first, it, every) ==
    LET ms == {j \in first..it : j % every = 0}
    IN  IF ms = {} THEN -1 ELSE CHOOSE j \in ms : \A l \in ms : l <= j

\* C2: R1 is recomputed in iteration i iff i mod d_reg_every = 0, and
\* loss_dict["r1"] is the penalty of the most recent recomputation (0 if none)
C2_R1Cadence ==
    AfterDReg =>
        /\ (At("d_r1_loss") # {}) <=> (CurIter % args.d_reg_every = 0)
        /\ Cardinality(At("d_r1_loss")) <= 1
        /\ hist.r1_at = LastMultiple(args.start_iter, CurIter, args.d_reg_every)
        /\ loss_dict["r1"] = hist.r1_val
        /\ hist.r1_at = -1 => loss_dict["r1"] = 0

\* from index 0, an iteration that does not regularize reports the penalty an
\* earlier iteration computed, on discriminator weights that have moved since
C2_Witness ==
    /\ pc = "g_freeze"
    /\ args.start_iter = 0
    /\ i % args.d_reg_every # 0
    /\ hist.r1_at = 0
    /\ loss_dict["r1"] # 0
    /\ loss_dict["r1"] # D_R1Loss(w[SD])

----------------------------------------------------------------------------
(* C3: one optimizer step per schedule slot.  In every executed iteration i *)
(* the optimizer steps are, in this order, d_optim.step, d_optim.step again *)
(* iff i mod d_reg_every = 0, g_optim.step, g_optim.step again iff          *)
(* i mod g_reg_every = 0.                                                   *)

Slots(it, a) ==
    <<"d_optim.step">>
    \o (IF it % a.d_reg_every = 0 THEN <<"d_optim.step">> ELSE <<>>)
    \o <<"g_optim.step">>
    \o (IF it % a.g_reg_every = 0 THEN <<"g_optim.step">> ELSE <<>>)

\* C3: the optimizer steps of an iteration are exactly its schedule slots, in
\* the order discriminator, discriminator regularization, generator,
\* generator regularization (also at every point inside the iteration: a
\* prefix of them)
C3_StepsPerSlot ==
    /\ IterEnd => Steps = Slots(CurIter, args)
    /\ pc \in TrainPcs /\ hist.ops # <<>> =>
          \E n \in 0..4 : n <= Len(Slots(CurIter, args))
                          /\ Steps = SubSeq(Slots(CurIter, args), 1, n)

\* a completed iteration that regularized the discriminator but not the
\* generator
C3_Witness ==
    /\ IterEnd
    /\ CurIter % args.d_reg_every = 0
    /\ CurIter % args.g_reg_every # 0
    /\ Steps = <<"d_optim.step", "d_optim.step", "g_optim.step">>

----------------------------------------------------------------------------
(* C4: loop termination.  As claimed: for 0 <= s <= iter, train terminates  *)
(* having executed the consecutive indices s, s+1, ..., every index from s  *)
(* to iter, and none above iter.                                            *)

Range(seq) == {seq[k] : k \in 1..Len(seq)}

\* C4 as claimed: a finished run with s <= iter has executed every index of
\* s..iter
C4_ExecutesThroughBudget ==
    pc = "done" /\ args.start_iter <= args.iter =>
        Range(hist.executed) = args.start_iter..args.iter

(* C4 as amended: the loop variable ranges over range(iter), so at most     *)
(* iter iterations are executed: the indices s .. min(iter, s + iter - 1),  *)
(* consecutively; from s = 0 the last one executed is iter - 1.  The loop   *)
(* ends unless the loader yields no batch.                                  *)

\* C4 as amended: the executed indices are consecutive from s, none above
\* iter, at most iter of them; a finished run with s <= iter has executed
\* exactly s..min(iter, s + iter - 1); with a loader that yields batches the
\* loop is never stuck before it is done
C4_LoopTermination ==
    /\ \A k \in 1..Len(hist.executed) :
          /\ hist.executed[k] = args.start_iter + k - 1
          /\ hist.executed[k] <= args.iter
    /\ Len(hist.executed) <= args.iter
    /\ idx <= args.iter
    /\ pc = "done" /\ args.start_iter <= args.iter =>
          Range(hist.executed) =
              args.start_iter..Min(args.iter, args.start_iter + args.iter - 1)
    /\ pc \in TrainPcs /\ ~args.loader_empty => ENABLED Next

\* a run from a positive start index that ended after executing the budget
\* index itself
C4_Witness ==
    /\ pc = "done"
    /\ args.start_iter > 0
    /\ Len(hist.executed) >= 2
    /\ CurIter = args.iter

----------------------------------------------------------------------------
(* C5: checkpoint round trip.  When train is entered after --ckpt_s was     *)
(* loaded, the student generator, the student EMA generator and both        *)
(* optimizers hold what the checkpoint stored as g, g_ema, g_optim, d_optim.*)

Resumed == hist.loaded # <<>>

LoadedCkpt == hist.loaded[1]

\* C5: train is entered after a resume with g, g_ema, g_optim, d_optim of
\* the loaded checkpoint
C5_RoundTrip ==
    pc = "train" /\ Resumed =>
        /\ w[SG] = LoadedCkpt.g
        /\ w["student_g_ema"] = LoadedCkpt.g_ema
        /\ g_optim = LoadedCkpt.g_optim
        /\ d_optim = LoadedCkpt.d_optim

----------------------------------------------------------------------------
(* C6: resume restores the persisted state.  In the first iteration of a    *)
(* resumed run the student discriminator and the augmentation probability   *)
(* are the checkpoint's d and ada_aug_p, and the iteration index is the     *)
(* index the checkpoint was written at.                                     *)

\* C6: the first resumed iteration runs with the checkpoint's d and
\* ada_aug_p, at the checkpointed index
C6_ResumeRestores ==
    pc = "d_forward" /\ Resumed /\ Len(hist.executed) = 1 =>
        /\ w[SD] = LoadedCkpt.d
        /\ ada_aug_p = LoadedCkpt.ada_aug_p
        /\ IntParse(SplitExtRoot(args.ckpt_s)).ok =>
              i = IntParse(SplitExtRoot(args.ckpt_s)).val

----------------------------------------------------------------------------
(* C7: EMA schedule.  In every executed iteration the EMA generator is      *)
(* blended toward the student generator exactly once, after every           *)
(* g_optim.step of the iteration and before the metric reduction, the       *)
(* sample and the checkpoint; nothing else in train changes the EMA         *)
(* generator's parameters.                                                  *)

AfterEmaOps == {"reduce_loss_dict", "log", "save_image", "torch.save"}

C7_OncePerIteration ==
    /\ Cardinality(At("accumulate")) <= 1
    /\ \A k \in At("accumulate") :
          /\ \A j \in At("g_optim.step") : j < k
          /\ \A j \in 1..Len(hist.ops) : hist.ops[j].op \in AfterEmaOps => k < j
          /\ At("g_optim.step") # {}
    /\ \A j \in 1..Len(hist.ops) :
          hist.ops[j].op \in AfterEmaOps => At("accumulate") # {}
    /\ IterEnd => Cardinality(At("accumulate")) = 1
    /\ pc = "ema" =>
          /\ At("accumulate") = {}
          /\ Cardinality(At("g_optim.step")) =
                 1 + Flag(CurIter % args.g_reg_every = 0)

C7_OnlyBlendWrites ==
    pc \in TrainPcs /\ w'["student_g_ema"] # w["student_g_ema"] =>
        /\ pc = "ema"
        /\ w'["student_g_ema"] =
               Accumulate(w["student_g_ema"], w[SG], AccumNum, AccumDen)

\* C7: one accumulate per iteration, after the g_optim steps and before
\* reduction, sample and checkpoint; only that blend changes student_g_ema
C7_EmaSchedule == []C7_OncePerIteration /\ [][C7_OnlyBlendWrites]_vars

\* a completed iteration with both generator steps, one blend that moved the
\* EMA generator, and a checkpoint written after it
C7_Witness ==
    /\ IterEnd
    /\ Cardinality(At("g_optim.step")) = 2
    /\ Cardinality(At("accumulate")) = 1
    /\ At("torch.save") # {}
    /\ w["student_g_ema"] # hist.entry["student_g_ema"]

----------------------------------------------------------------------------
(* C8: teacher frozen at every backward pass.  At every backward pass of    *)
(* train no parameter of the teacher generator requires grad, and no        *)
(* gradient is deposited on the teacher generator.                          *)

\* C8: at every backward pass the teacher generator's parameters do not
\* require grad, and no gradient is ever deposited on them
C8_TeacherNoGrad ==
    /\ \A k \in 1..Len(hist.ops) :
          hist.ops[k].op \in BackwardOps => ~hist.ops[k].rg["generator"]
    /\ pc \in TrainPcs \cup {"done"} => grad["generator"] = 0

----------------------------------------------------------------------------
(* C9: teacher weights are frozen.  Throughout train the teacher            *)
(* generator's parameters are the ones train was entered with.              *)

\* C9: in train the teacher generator's parameters are those train was
\* entered with
C9_TeacherFrozen ==
    pc \in TrainPcs \cup {"done"} => w["generator"] = hist.entry["generator"]

\* a finished run with kernel alignment in which gradients were deposited on
\* the teacher generator and the student generator moved
C9_Witness ==
    /\ pc = "done"
    /\ args.kernel_alignment
    /\ Len(hist.executed) >= 2
    /\ grad["generator"] > 0
    /\ w[SG] # hist.entry[SG]

----------------------------------------------------------------------------
(* C10: adaptive augmentation gating.  With --augment, ada_augment.tune is  *)
(* called once per executed iteration, right after the main discriminator   *)
(* update and before the R1 regularization, iff augment_p = 0; with         *)
(* augment_p > 0 it is never called and every operation of the run uses     *)
(* ada_aug_p = augment_p.                                                   *)

\* C10: with --augment, tune is called once per iteration between the main
\* discriminator update and the R1 regularization iff augment_p = 0; with
\* augment_p > 0 never, and ada_aug_p = augment_p throughout
C10_AdaGating ==
    args.augment /\ pc \in TrainPcs \cup {"done"} =>
        /\ IterEnd =>
              Cardinality(At("ada_augment.tune")) = Flag(args.augment_p = 0)
        /\ \A k \in At("ada_augment.tune") :
              /\ k > 1
              /\ hist.ops[k - 1].op = "d_optim.step"
              /\ Cardinality({j \in At("d_optim.step") : j < k}) = 1
              /\ \A j \in At("d_r1_loss") : k < j
        /\ args.augment_p = 0 =>
              hist.tuned = Len(hist.executed)
                           - Flag(pc \in {"d_freeze", "d_forward", "d_update", "ada"})
        /\ args.augment_p > 0 =>
              /\ hist.tuned = 0
              /\ ada_aug_p = args.augment_p
              /\ \A k \in 1..Len(hist.ops) : hist.ops[k].p = args.augment_p

\* adaptive mode: two iterations done, each tuned once, the probability moved
C10_Witness ==
    /\ IterEnd
    /\ args.augment
    /\ args.augment_p = 0
    /\ hist.tuned = 2
    /\ Len(hist.executed) = 2
    /\ ada_aug_p > 0

----------------------------------------------------------------------------
(* C11: path-length state.  mean_path_length, path_loss and path_lengths    *)
(* are assigned in iteration i exactly when i mod g_reg_every = 0; in every *)
(* other iteration they keep the values of the most recent such iteration   *)
(* of the run (0 before the first), and the path and path_length metrics    *)
(* are those retained values.                                               *)

\* the generator part of the current iteration is over
AfterGReg == pc \in {"ema", "reduce", "log", "sample", "save"} \/ IterEnd

C11_Retained ==
    AfterGReg =>
        /\ (At("g_path_regularize") # {}) <=> (CurIter % args.g_reg_every = 0)
        /\ Cardinality(At("g_path_regularize")) <= 1
        /\ hist.path_at = LastMultiple(args.start_iter, CurIter, args.g_reg_every)
        /\ path_loss = hist.path_val.loss
        /\ path_lengths = hist.path_val.lengths
        /\ mean_path_length = hist.path_val.mean
        /\ hist.path_at = -1 =>
              path_loss = 0 /\ path_lengths = 0 /\ mean_path_length = 0
        /\ loss_dict["path"] = path_loss
        /\ loss_dict["path_length"] = path_lengths

C11_OnlyRegularizationWrites ==
    /\ pc \in TrainPcs
    /\ <<mean_path_length, path_loss, path_lengths>>'
           # <<mean_path_length, path_loss, path_lengths>>
    => pc = "g_reg" /\ i % args.g_reg_every = 0

\* C11: the path-length state is assigned in iteration i iff
\* i mod g_reg_every = 0, otherwise it keeps the values of the most recent
\* such iteration (0 before the first), and the path / path_length metrics
\* report the retained values
C11_PathState == []C11_Retained /\ [][C11_OnlyRegularizationWrites]_vars

\* an iteration without path regularization that reports the path lengths an
\* earlier iteration measured, on a generator that has moved since
C11_Witness ==
    /\ pc = "ema"
    /\ CurIter % args.g_reg_every # 0
    /\ hist.path_at >= 0
    /\ mean_path_length # 0
    /\ loss_dict["path_length"] = hist.path_val.lengths
    /\ loss_dict["path_length"] # w[SG].style

----------------------------------------------------------------------------
(* C12: paired noise.  In the generator step the teacher generator and the  *)
(* student generator are invoked on the same latent batch, drawn after the  *)
(* discriminator step: not the batch the discriminator step generated its   *)
(* fakes from, nor the one drawn for path regularization.                   *)

\* the latent batches the student generator consumed in this iteration
StudentBatches == [k \in At("student_generator(noise)") |-> hist.ops[k].z]

\* C12: teacher and student generator consume one and the same batch in the
\* generator step, a draw made after every discriminator update of the
\* iteration and used by no other forward pass of the iteration
C12_PairedNoise ==
    /\ Cardinality(At("generator(noise)")) <= 1
    /\ \A k \in At("generator(noise)") :
          /\ k < Len(hist.ops)
          /\ hist.ops[k + 1].op = "student_generator(noise)"
          /\ hist.ops[k + 1].z = hist.ops[k].z
          /\ hist.ops[k].z \in 1..nDraws
          /\ \A j \in At("d_optim.step") : j < k
          /\ \A j \in DOMAIN StudentBatches :
                j < k => StudentBatches[j] < hist.ops[k].z
          /\ \A j \in DOMAIN StudentBatches :
                j > k + 1 => StudentBatches[j] > hist.ops[k].z
    /\ pc \in {"g_update", "g_reg", "ema", "reduce", "log", "sample", "save"} =>
          At("generator(noise)") # {}
    /\ pc \in {"d_update", "g_update"} => noise.id = nDraws

\* an iteration with path regularization: three forward passes of the student
\* generator on three different batches, the teacher on the second
C12_Witness ==
    /\ pc = "ema"
    /\ Cardinality(At("student_generator(noise)")) = 3
    /\ Cardinality({StudentBatches[k] : k \in DOMAIN StudentBatches}) = 3
    /\ \E k \in At("generator(noise)") :
          /\ hist.ops[k].z = hist.ops[k + 1].z
          /\ \E j \in DOMAIN StudentBatches : j < k
          /\ \E j \in DOMAIN StudentBatches : j > k + 1

----------------------------------------------------------------------------
(* C13: lockstep reductions.  Processes started with the same arguments     *)
(* and start index issue the same sequence of collectives: reduce_sum in    *)
(* the iterations with i mod g_reg_every = 0, reduce_loss_dict in every     *)
(* iteration, none of them in the rank-zero branch; every collective one    *)
(* process reaches is reached by all, and no process waits for ever.        *)

\* the collectives of the iterations first..last
RECURSIVE Reductions(_, _, _)
Reductions(first, last, every) ==
    IF last < first THEN <<>>
    ELSE Reductions(first, last - 1, every)
         \o (IF last % every = 0 THEN <<Collective("reduce_sum", last)>> ELSE <<>>)
         \o <<Collective("reduce_loss_dict", last)>>

IsPrefix(s, t) == Len(s) <= Len(t) /\ s = SubSeq(t, 1, Len(s))

AllDone == \A r \in Ranks : group[r].pc = "done"

C13_SameSequence ==
    /\ \A r \in Ranks :
          LET p == group[r]
              due == Reductions(args.start_iter, p.last, args.g_reg_every)
          IN  /\ IsPrefix(p.coll, due)
              /\ p.pc \in {"in_reduce_loss_dict", "rank0", "loop", "done"} =>
                    p.coll = due
    /\ \A r, q \in Ranks :
          /\ IsPrefix(group[r].coll, group[q].coll)
             \/ IsPrefix(group[q].coll, group[r].coll)
          /\ group[r].idx - group[q].idx \in {-1, 0, 1}
          /\ group[r].pc \in {"in_reduce_sum", "in_reduce_loss_dict"}
             /\ group[q].pc = "done" => Matched(r)
    /\ AllDone => \A r, q \in Ranks : group[r].coll = group[q].coll

C13_IssuedOutsideRankZero ==
    \A r \in Ranks :
        group'[r].coll # group[r].coll =>
            /\ group[r].pc \in {"g_reg", "reduce"}
            /\ group[r].pc = "g_reg" => group[r].i % args.g_reg_every = 0

\* C13: all processes issue the same collectives (reduce_sum iff
\* i mod g_reg_every = 0, reduce_loss_dict in every iteration), none inside
\* the rank-zero branch, and every process gets through all of them
C13_Lockstep ==
    /\ []C13_SameSequence
    /\ [][C13_IssuedOutsideRankZero]_vars
    /\ <>AllDone

\* a finished group: both kinds of collective were issued by every process,
\* over two iterations or more, and rank zero alone wrote output
C13_Witness ==
    /\ AllDone
    /\ \A r \in Ranks :
          /\ \E k \in 1..Len(group[r].coll) : group[r].coll[k].kind = "reduce_sum"
          /\ \E k \in 1..Len(group[r].coll) :
                /\ group[r].coll[k].kind = "reduce_loss_dict"
                /\ group[r].coll[k].at % args.g_reg_every # 0
    /\ group[0].out # {}
    /\ group[1].out = {}

----------------------------------------------------------------------------
(* C14: periodic output gating.  A sample grid is written in iteration i    *)
(* iff the process is rank zero and i mod 1000 = 0, a checkpoint iff it is  *)
(* rank zero and i mod 10000 = 0; each file is named by the index of the    *)
(* iteration that wrote it, zero-padded to 6 digits, so that no two         *)
(* iterations of a run and no two processes write the same file.            *)

\* the files of one kind written by the current launch
WrittenNow(kind) ==
    SelectSeq(hist.written,
              LAMBDA r : r.kind = kind /\ r.launch = args.launch)

Period(kind) == IF kind = "sample" THEN SampleEvery ELSE SaveEvery

\* C14: save_image runs in iteration i iff rank zero and i mod 1000 = 0,
\* torch.save iff rank zero and i mod 10000 = 0; the file name starts with
\* the 6-digit zero-padded index; files of different iterations of a run
\* have different names and a process of another rank writes none
C14_OutputGating ==
    /\ IterEnd =>
          /\ (At("save_image") # {})
                 <=> (args.rank = 0 /\ CurIter % SampleEvery = 0)
          /\ (At("torch.save") # {})
                 <=> (args.rank = 0 /\ CurIter % SaveEvery = 0)
          /\ Cardinality(At("save_image")) <= 1
          /\ Cardinality(At("torch.save")) <= 1
    /\ \A k \in 1..Len(hist.written) :
          LET r == hist.written[k]
          IN  /\ r.at % Period(r.kind) = 0
              /\ Len(r.name) > NameWidth
              /\ IntParse(SubSeq(r.name, 1, NameWidth)) = [ok |-> TRUE, val |-> r.at]
              /\ ~IsDigit(r.name[NameWidth + 1])
              /\ r.kind = "sample" => r.name \in samples
              /\ r.kind = "checkpoint" => \E f \in files : f.name = r.name
    /\ \A kind \in {"sample", "checkpoint"} :
          \A j, k \in 1..Len(WrittenNow(kind)) :
              j # k => WrittenNow(kind)[j].name # WrittenNow(kind)[k].name
    /\ args.rank # 0 => hist.written = <<>>

\* rank zero, one run: sample and checkpoint written at index 0, a second
\* sample under another name at index 1000, where no checkpoint is due
C14_Witness ==
    /\ pc = "done"
    /\ args.rank = 0
    /\ Len(WrittenNow("sample")) = 2
    /\ WrittenNow("sample")[2].at = SampleEvery
    /\ WrittenNow("sample")[1].name # WrittenNow("sample")[2].name
    /\ Len(WrittenNow("checkpoint")) = 1
    /\ Cardinality(samples) = 2

----------------------------------------------------------------------------
(* C15: accumulate with decay 0.  As claimed: accumulate(target, source,    *)
(* 0) leaves every parameter of target at its value before the call.        *)

Accumulated(num, den) ==
    call.fn = "accumulate" /\ call.done /\ call.decay = <<num, den>>

\* C15 as claimed: after accumulate(target, source, 0) every target
\* parameter has the value it had before the call
C15_DecayZeroKeepsTarget ==
    Accumulated(0, 1) => call.out = call.target

(* C15 as amended: par1 * 0 + par2 * 1 is par2, so the call overwrites      *)
(* every target parameter with the source parameter of the same name; it is *)
(* decay 1 that leaves target unchanged.                                    *)

\* C15 as amended: after accumulate(target, source, 0) every target
\* parameter equals the source parameter of the same name; with decay 1
\* target is unchanged
C15_DecayZeroCopiesSource ==
    /\ Accumulated(0, 1) =>
          /\ DOMAIN call.out = DOMAIN call.target
          /\ \A k \in DOMAIN call.target : call.out[k] = call.source[k]
    /\ Accumulated(1, 1) => call.out = call.target

\* a call with decay 0 on a target that differs from the source in every
\* parameter
C15_Witness ==
    /\ Accumulated(0, 1)
    /\ \A k \in DOMAIN call.target : call.target[k] # call.source[k]
    /\ call.out = call.source

----------------------------------------------------------------------------
(* C16: noise sampler arity.  mixing_noise with probability 0 returns       *)
(* exactly one latent tensor of shape (batch, latent_dim), with probability *)
(* 1 exactly two, whatever the random draw.                                 *)

\* C16: for every batch size, latent dimension and draw, mixing_noise
\* returns one tensor of shape (b, d) when prob = 0 and two when prob = 1
C16_NoiseArity ==
    call.fn = "mixing_noise" /\ call.done =>
        /\ call.prob = 0 => call.out = <<(<<call.batch, call.latent_dim>>)>>
        /\ call.prob = 100 =>
              /\ Len(call.out) = 2
              /\ \A k \in 1..2 : call.out[k] = <<call.batch, call.latent_dim>>

\* probability 1 and the largest draw: two tensors of the full latent size
C16_Witness ==
    /\ call.fn = "mixing_noise"
    /\ call.done
    /\ call.prob = 100
    /\ call.u = 99
    /\ call.out = <<(<<BatchDefault, LatentDim>>), (<<BatchDefault, LatentDim>>)>>

----------------------------------------------------------------------------
(* C17: malformed resume file name.  As claimed: when the name of the       *)
(* --ckpt_s file (without extension) does not parse as an integer, the      *)
(* error is ignored, the start index stays 0 and the checkpoint's weights   *)
(* and optimizer states are loaded all the same; when it parses, the start  *)
(* index is the parsed integer.                                             *)

ParsedName == IntParse(SplitExtRoot(args.ckpt_s))

\* C17: past the loading of --ckpt_s, the start index is the integer the
\* file name parses to, or 0 if it does not parse, in which case train is
\* still entered with the checkpoint's g, g_ema, g_optim and d_optim
C17_MalformedName ==
    args.ckpt_s # NoFile /\ pc \notin {"load_teacher", "load_student"} =>
        /\ ParsedName.ok => args.start_iter = ParsedName.val
        /\ ~ParsedName.ok =>
              /\ args.start_iter = 0
              /\ hist.error \notin {"ValueError", "NameError", "RuntimeError"}
              /\ Resumed
              /\ pc = "train" =>
                    /\ w[SG] = LoadedCkpt.g
                    /\ w["student_g_ema"] = LoadedCkpt.g_ema
                    /\ g_optim = LoadedCkpt.g_optim
                    /\ d_optim = LoadedCkpt.d_optim

----------------------------------------------------------------------------
(* C18: kernel-alignment mismatch is fatal.  With kernel alignment, a pair  *)
(* of student / teacher feature maps of different batch dimensions aborts   *)
(* the iteration with an assertion failure before the generator's gradients *)
(* are zeroed or g_optim is stepped: no generator update, EMA update,       *)
(* sample or checkpoint in that iteration, and no later iteration.          *)

GenUpdateOps == {"student_generator.zero_grad", "g_loss.backward",
                 "g_optim.step", "g_path_regularize",
                 "weighted_path_loss.backward", "reduce_sum", "accumulate",
                 "reduce_loss_dict", "log", "save_image", "torch.save"}

C18_Aborted ==
    /\ hist.error = "AssertionError" =>
          /\ pc = "crashed"
          /\ args.kernel_alignment /\ ~args.f_maps_match
          /\ At("generator(noise)") # {}
          /\ \A k \in 1..Len(hist.ops) : hist.ops[k].op \notin GenUpdateOps
          /\ Len(hist.executed) = 1
          /\ w[SG] = hist.entry[SG]
          /\ w["student_g_ema"] = hist.entry["student_g_ema"]
          /\ grad[SG] = 0
          /\ hist.written = <<>>
    /\ args.kernel_alignment /\ ~args.f_maps_match =>
          /\ pc \notin {"g_update", "g_reg", "ema", "reduce", "log", "sample", "save"}
          /\ Len(hist.executed) <= 1
          /\ pc = "done" => hist.executed = <<>>

\* C18: with kernel alignment a batch mismatch between student and teacher
\* feature maps ends the process by an assertion failure inside the
\* generator forward pass of that iteration: nothing of the generator
\* update, EMA update, reduction, sample or checkpoint runs, and the process
\* takes no further step
C18_KAMismatchFatal == []C18_Aborted /\ [][pc # "crashed"]_vars

\* the assertion failed after the discriminator of that iteration had been
\* updated
C18_Witness ==
    /\ pc = "crashed"
    /\ hist.error = "AssertionError"
    /\ At("d_optim.step") # {}
    /\ w[SD] # hist.entry[SD]
    /\ OpNames[Len(OpNames)] \in {"student_generator(noise)", "augment"}

----------------------------------------------------------------------------
(* C19: resume re-executes the checkpointed iteration.  The checkpoint      *)
(* named k is written at the end of iteration k, after its discriminator,   *)
(* generator and EMA updates; a run resumed from it starts at index k       *)
(* again, so that iteration k, with its regularizations, its sample and its *)
(* checkpoint under the same name, is executed once before the save and     *)
(* once more after the resume (in a resumed run whose budget lets it        *)
(* execute an iteration at all: iter >= 1 and iter >= k).                   *)

\* the checkpoints written so far, by every launch
WrittenCkpts == SelectSeq(hist.written, LAMBDA r : r.kind = "checkpoint")

C19_SavedAtEndOfIteration ==
    /\ \A n \in 1..Len(WrittenCkpts) :
          IntParse(SplitExtRoot(WrittenCkpts[n].name))
              = [ok |-> TRUE, val |-> WrittenCkpts[n].at]
    /\ \A n \in At("torch.save") :
          /\ n = Len(hist.ops)
          /\ \E j \in At("d_optim.step") : j < n
          /\ \E j \in At("g_optim.step") : j < n
          /\ \E j \in At("accumulate") : j < n
          /\ WrittenCkpts[Len(WrittenCkpts)].at = CurIter
          /\ IterEnd =>
                LoadFile(files, CkptName(CurIter))
                    = CkptOf(w, g_optim, d_optim, ada_aug_p)

C19_FirstIterationIsK ==
    Resumed /\ ParsedName.ok =>
        LET k == ParsedName.val
        IN  /\ args.start_iter = k
            /\ hist.executed # <<>> => hist.executed[1] = k
            /\ pc = "done" /\ args.iter >= 1 /\ args.iter >= k =>
                  hist.executed # <<>>
            /\ IterEnd /\ Len(hist.executed) = 1 =>
                  /\ (At("d_r1_loss") # {}) <=> (k % args.d_reg_every = 0)
                  /\ (At("g_path_regularize") # {}) <=> (k % args.g_reg_every = 0)
                  /\ args.rank = 0 /\ k % SaveEvery = 0 =>
                        /\ At("save_image") # {}
                        /\ At("torch.save") # {}
                        /\ WrittenCkpts[Len(WrittenCkpts)] =
                               [kind |-> "checkpoint", name |-> args.ckpt_s,
                                at |-> k, launch |-> args.launch]

\* C19: a checkpoint is named by the iteration at whose end it is written,
\* after that iteration's updates, and the first iteration of a run resumed
\* from the checkpoint named k is iteration k again, with its gated
\* regularizations, sample and checkpoint write under the same name
C19_ResumeReexecutes == C19_SavedAtEndOfIteration /\ C19_FirstIterationIsK

\* the second launch resumed from the checkpoint the first launch wrote in
\* iteration 0, executed iteration 0 again and wrote the same file again
C19_Witness ==
    /\ IterEnd
    /\ Resumed
    /\ args.launch = 2
    /\ hist.executed = <<0>>
    /\ Len(WrittenCkpts) = 2
    /\ WrittenCkpts[1].name = WrittenCkpts[2].name
    /\ WrittenCkpts[1].at = WrittenCkpts[2].at
    /\ WrittenCkpts[1].launch = 1
    /\ WrittenCkpts[2].launch = 2
    /\ At("g_path_regularize") # {}

----------------------------------------------------------------------------
(* C20: no gradient accumulation across sub-steps.  Every optimizer step on *)
(* a student network is preceded by the zeroing of that network's gradients *)
(* and then exactly one backward pass, with no other backward pass or       *)
(* optimizer step on the network in between: each of the up to four updates *)
(* of an iteration uses the gradient of one loss.                           *)

\* the zeroing and the backward passes that belong to an optimizer step
ZeroOf(step) == IF step = "d_optim.step" THEN "student_discriminator.zero_grad"
                ELSE "student_generator.zero_grad"

LossesOf(step) == IF step = "d_optim.step"
                  THEN {"d_loss.backward", "r1_loss.backward"}
                  ELSE {"g_loss.backward", "weighted_path_loss.backward"}

C20_ZeroBackwardStep ==
    /\ \A k \in 1..Len(hist.ops) :
          IsStep(hist.ops[k].op) =>
              /\ k >= 3
              /\ hist.ops[k - 1].op \in LossesOf(hist.ops[k].op)
              /\ hist.ops[k - 2].op = ZeroOf(hist.ops[k].op)
    /\ \A k \in 1..Len(hist.ops) :
          hist.ops[k].op \in BackwardOps =>
              k < Len(hist.ops) /\ IsStep(hist.ops[k + 1].op)
    /\ \A b \in BackwardOps : Cardinality(At(b)) <= 1
    /\ pc \in {"ada", "d_reg", "g_freeze", "g_forward", "g_update"} => grad[SD] = 1
    /\ pc \in {"g_reg", "ema", "reduce", "log", "sample", "save"} =>
          grad[SD] = 1 /\ grad[SG] = 1

C20_OneLossPerStep ==
    /\ pc = "d_update" \/ (pc = "d_reg" /\ i % args.d_reg_every = 0) =>
          grad'[SD] = 1 /\ grad'[SG] = grad[SG]
    /\ pc = "g_update" \/ (pc = "g_reg" /\ i % args.g_reg_every = 0) =>
          grad'[SG] = 1 /\ grad'[SD] = grad[SD]

\* C20: every optimizer step directly follows one backward pass, which
\* directly follows the zeroing of the stepped network's gradients, and the
\* gradient the step uses is that of this one backward pass
C20_NoAccumulation == []C20_ZeroBackwardStep /\ [][C20_OneLossPerStep]_vars

\* the second iteration of a run, all four updates done: each network still
\* holds the gradient of a single backward pass
C20_Witness ==
    /\ pc = "ema"
    /\ Len(hist.executed) = 2
    /\ Steps = <<"d_optim.step", "d_optim.step", "g_optim.step", "g_optim.step">>
    /\ Cardinality({b \in BackwardOps : At(b) # {}}) = 4
    /\ grad[SD] = 1
    /\ grad[SG] = 1

====
